---- MODULE Spec2Model ----
(***************************************************************************)
(* var-8: segmentation of a UTF-8 buffer into extended characters          *)
(* (src/src/lib.rs).  A segmenter UTF8Chars holds one field, the slice     *)
(* `bytes` of the buffer that is not yet consumed; next() decodes a base   *)
(* code point, an optional variation selector and any number of            *)
(* (zero width joiner, code point) pairs, and yields them as one UTF8Char. *)
(*                                                                         *)
(* A slice &[u8] is modelled as the half-open range [start, end) of        *)
(* offsets into the buffer it borrows from, so that a yielded character is *)
(* a range of the buffer and not only its bytes.  A panic (the panic! of   *)
(* code_point_len, an index or a split out of range) ends the program.     *)
(* from_utf8_unchecked on bytes that are not UTF-8 is undefined behaviour:  *)
(* the comparison that reads the str has any outcome, chosen per run.       *)
(***************************************************************************)
EXTENDS Integers, Sequences, FiniteSets

\* Bounds of the model.
MaxChars == 5          \* longest str, in chars, a segmenter is built on
MaxRawUnits == 3       \* longest raw buffer, in units, of SpecRaw
MaxTwoChars == 4       \* longest str, in chars, both segmenters of SpecTwo scan

\* The two segmenters built on the same text (utf8_chars() called twice).
Segs == {1, 2}

VARIABLES
  text,       \* the text, as the sequence of its units' bytes (a unit is a char of a str; in SpecRaw also a stray byte)
  buf,        \* the buffer: the bytes of the text
  bytes,      \* bytes[i]: the field UTF8Chars::bytes of segmenter i, a slice of buf
  emitted,    \* emitted[i]: the slices of the UTF8Chars that segmenter i has yielded, in order
  ret,        \* ret[i]: what the last next() of segmenter i returned: "Init" (not called), "Some", "None", "Panic"
  lenRes,     \* the result of the call code_point_len(buf), once made
  panicked,   \* a panic has ended the program
  unchecked   \* what this build makes of a str whose bytes are not UTF-8 (undefined behaviour)

vars == <<text, buf, bytes, emitted, ret, lenRes, panicked, unchecked>>

----------------------------------------------------------------------------
\* Bytes and their encoding.

\* Bit i of the byte x.
Bit(x, i) == (x \div (2 ^ i)) % 2

\* a & b on u8, bit by bit.
BitAnd(a, b) ==
  (Bit(a, 0) * Bit(b, 0)) + (2 * Bit(a, 1) * Bit(b, 1))
    + (4 * Bit(a, 2) * Bit(b, 2)) + (8 * Bit(a, 3) * Bit(b, 3))
    + (16 * Bit(a, 4) * Bit(b, 4)) + (32 * Bit(a, 5) * Bit(b, 5))
    + (64 * Bit(a, 6) * Bit(b, 6)) + (128 * Bit(a, 7) * Bit(b, 7))

\* The UTF-8 encoding of the scalar value cp: the bytes of a one-char str.
Encode(cp) ==
  IF cp < 128 THEN <<cp>>
  ELSE IF cp < 2048 THEN <<192 + (cp \div 64), 128 + (cp % 64)>>
  ELSE IF cp < 65536
    THEN <<224 + (cp \div 4096), 128 + ((cp \div 64) % 64), 128 + (cp % 64)>>
    ELSE <<240 + (cp \div 262144), 128 + ((cp \div 4096) % 64),
           128 + ((cp \div 64) % 64), 128 + (cp % 64)>>

\* pub const VARIATION_SELECTOR: &str = "\u{fe0f}", as its bytes.
VARIATION_SELECTOR == Encode(65039)

\* pub const ZERO_WIDTH_JOINER: &str = "\u{200d}", as its bytes.
ZERO_WIDTH_JOINER == Encode(8205)

\* The chars texts are made of: 'A', U+00B1, U+26BD and U+1FAE5 (the tests'
\* chars of 1 to 4 bytes; U+26BD shares its first byte with the joiner), the
\* variation selector and the joiner.
Chars == {65, 177, 9917, 129765, 65039, 8205}

CharUnits == {Encode(c) : c \in Chars}

\* Stray bytes of a raw buffer: a continuation byte, a byte 11111xxx, the
\* leading bytes of a 3 and of a 4 byte code point whose rest is missing, and
\* the leading byte of a 3 byte code point before two bytes that continue none.
StrayUnits == {<<128>>, <<255>>, <<226>>, <<240>>, <<226, 65, 65>>}

\* What follows the first byte in the buffers code_point_len is called on.
Tails == {<<>>, <<128>>, <<65, 65, 65>>}

RECURSIVE Concat(_)
Concat(ss) == IF ss = <<>> THEN <<>> ELSE Head(ss) \o Concat(Tail(ss))

\* str::as_bytes: the bytes of the text, unit after unit.
as_bytes(t) == Concat(t)

SeqsUpTo(S, n) == UNION {[1..k -> S] : k \in 0..n}

----------------------------------------------------------------------------
\* Slices of buf.

Slice(s, e) == [start |-> s, end |-> e]
NoSlice == Slice(0, 0)
SliceLen(s) == s.end - s.start
is_empty(s) == SliceLen(s) = 0
\* The bytes a slice holds.
Content(s) == SubSeq(buf, s.start + 1, s.end)

\* Option<(&[u8], &[u8])>, or the panic that ends the call.
None == [tag |-> "None", fst |-> NoSlice, snd |-> NoSlice]
Some(a, b) == [tag |-> "Some", fst |-> a, snd |-> b]
Panic == [tag |-> "Panic", fst |-> NoSlice, snd |-> NoSlice]

\* usize, or the panic that ends the call.
Ok(n) == [tag |-> "Ok", val |-> n]
LenPanic == [tag |-> "Panic", val |-> 0]
Uncalled == [tag |-> "Uncalled", val |-> 0]

\* Faulty variant: the split of a slice shorter than mid gives all of it.
split_at_clamping(s, mid) ==
  IF mid > SliceLen(s) THEN Some(s, Slice(s.end, s.end))
  ELSE Some(Slice(s.start, s.start + mid), Slice(s.start + mid, s.end))

\* Faulty variant: the split panics when mid reaches the length.
split_at_exclusive(s, mid) ==
  IF mid >= SliceLen(s) THEN Panic
  ELSE Some(Slice(s.start, s.start + mid), Slice(s.start + mid, s.end))

\* bytes.split_at(mid): panics when mid > bytes.len().
split_at(s, mid) ==
  IF mid > SliceLen(s) THEN Panic
  ELSE Some(Slice(s.start, s.start + mid), Slice(s.start + mid, s.end))

\* &bytes[..n]: panics when n > bytes.len().
slice_to(s, n) ==
  IF n > SliceLen(s) THEN Panic ELSE Some(Slice(s.start, s.start + n), NoSlice)

----------------------------------------------------------------------------
\* The functions of lib.rs.  Where a function binds the result of a call and
\* then branches on it (`?`, `if let`, `while let`), the branches are an
\* operator of their own that takes the result.

\* Faulty variant: the test for two bytes masks two bits, 0b1100_0000, not three.
code_point_len_mask(s) ==
  IF is_empty(s) THEN LenPanic
  ELSE IF BitAnd(buf[s.start + 1], 128) = 0 THEN Ok(1)
  ELSE IF BitAnd(buf[s.start + 1], 192) = 192 THEN Ok(2)
  ELSE IF BitAnd(buf[s.start + 1], 240) = 224 THEN Ok(3)
  ELSE IF BitAnd(buf[s.start + 1], 248) = 240 THEN Ok(4)
  ELSE LenPanic

\* Faulty variant: a first byte of none of the patterns is taken for one byte.
code_point_len_guess(s) ==
  IF is_empty(s) THEN LenPanic
  ELSE IF BitAnd(buf[s.start + 1], 128) = 0 THEN Ok(1)
  ELSE IF BitAnd(buf[s.start + 1], 224) = 192 THEN Ok(2)
  ELSE IF BitAnd(buf[s.start + 1], 240) = 224 THEN Ok(3)
  ELSE IF BitAnd(buf[s.start + 1], 248) = 240 THEN Ok(4)
  ELSE Ok(1)

\* pub fn code_point_len(bytes: &[u8]) -> usize; bytes[0] panics on an empty slice.
code_point_len(s) ==
  IF is_empty(s) THEN LenPanic
  ELSE IF BitAnd(buf[s.start + 1], 128) = 0 THEN Ok(1)
  ELSE IF BitAnd(buf[s.start + 1], 224) = 192 THEN Ok(2)
  ELSE IF BitAnd(buf[s.start + 1], 240) = 224 THEN Ok(3)
  ELSE IF BitAnd(buf[s.start + 1], 248) = 240 THEN Ok(4)
  ELSE LenPanic

\* A continuation byte, 0b10xx_xxxx.
IsCont(x) == x \in 128..191

\* The bytes b of one decoded code point are UTF-8: what the SAFETY comment
\* of bytes_as_str requires of its caller.
IsUtf8(b) ==
  \/ Len(b) = 1 /\ b[1] \in 0..127
  \/ Len(b) = 2 /\ b[1] \in 194..223 /\ IsCont(b[2])
  \/ /\ Len(b) = 3 /\ b[1] \in 224..239 /\ IsCont(b[2]) /\ IsCont(b[3])
     /\ b[1] = 224 => b[2] >= 160
     /\ b[1] = 237 => b[2] <= 159
  \/ /\ Len(b) = 4 /\ b[1] \in 240..244
     /\ IsCont(b[2]) /\ IsCont(b[3]) /\ IsCont(b[4])
     /\ b[1] = 240 => b[2] >= 144
     /\ b[1] = 244 => b[2] <= 143

\* The outcomes of comparing a str that from_utf8_unchecked made of bytes
\* that are not UTF-8: its bytes are compared as they are, or the str is
\* found equal to the selector, or to the joiner.
UncheckedOutcomes == {"bytes", "selector", "joiner"}

\* fn bytes_as_str(bytes: &[u8]) -> &str: from_utf8_unchecked reinterprets the
\* bytes and checks nothing; the str compares equal to another by its bytes
\* when they are UTF-8, and as this build's outcome has it when they are not.
bytes_as_str(s) ==
  IF unchecked = "bytes" \/ IsUtf8(Content(s)) THEN Content(s)
  ELSE IF unchecked = "selector" THEN VARIATION_SELECTOR
  ELSE ZERO_WIDTH_JOINER

\* bytes.split_at(code_point_len(bytes)), n the decoded length.
split_at_len(s, n) == IF n.tag = "Panic" THEN Panic ELSE split_at(s, n.val)

\* fn next_code_point(bytes: &[u8]) -> Option<(&[u8], &[u8])>
next_code_point(s) ==
  IF is_empty(s) THEN None ELSE split_at_len(s, code_point_len(s))

\* Faulty variant: the code point is compared with the joiner, not the selector.
selector_of_joiner(r) ==
  IF r.tag # "Some" THEN r
  ELSE IF bytes_as_str(r.fst) = ZERO_WIDTH_JOINER THEN Some(r.fst, r.snd)
  ELSE None

\* variation_selector after `next_code_point(bytes)?` returned r.
selector_of(r) ==
  IF r.tag # "Some" THEN r
  ELSE IF bytes_as_str(r.fst) = VARIATION_SELECTOR THEN Some(r.fst, r.snd)
  ELSE None

\* fn variation_selector(bytes: &[u8]) -> Option<(&[u8], &[u8])>
variation_selector(s) == selector_of(next_code_point(s))

\* Some((&bytes[..n], remainder)), the slice `both` taken.
joined_of(both, remainder) ==
  IF both.tag = "Panic" THEN Panic ELSE Some(both.fst, remainder)

\* Faulty variant: the joined code point is consumed and its length is not counted.
join_with_uncounted(s, r, w) ==
  IF w.tag = "Panic" THEN Panic
  ELSE IF w.tag = "Some" THEN Some(r.fst, w.snd)
  ELSE Some(r.fst, r.snd)

\* Faulty variant: a joiner that no code point follows is not a match.
join_with_strict(s, r, w) ==
  IF w.tag = "Panic" THEN Panic
  ELSE IF w.tag = "Some"
    THEN joined_of(slice_to(s, SliceLen(r.fst) + SliceLen(w.fst)), w.snd)
    ELSE None

\* Faulty variant: a joiner that no code point follows is an error.
join_with_expect(s, r, w) ==
  IF w.tag = "Some"
    THEN joined_of(slice_to(s, SliceLen(r.fst) + SliceLen(w.fst)), w.snd)
    ELSE Panic

\* Faulty variant: a joiner that follows the joiner is left to start a pair
\* of its own.
join_with_rejoin(s, r, w) ==
  IF w.tag = "Panic" THEN Panic
  ELSE IF w.tag = "Some" /\ bytes_as_str(w.fst) # ZERO_WIDTH_JOINER
    THEN joined_of(slice_to(s, SliceLen(r.fst) + SliceLen(w.fst)), w.snd)
    ELSE Some(r.fst, r.snd)

\* zero_width_joiner once the joiner r is found: w is next_code_point(remainder).
join_with(s, r, w) ==
  IF w.tag = "Panic" THEN Panic
  ELSE IF w.tag = "Some"
    THEN joined_of(slice_to(s, SliceLen(r.fst) + SliceLen(w.fst)), w.snd)
    ELSE Some(r.fst, r.snd)

\* Faulty variant: the joiner is recognised by its first byte alone.
joiner_of_first_byte(s, r) ==
  IF r.tag # "Some" THEN r
  ELSE IF buf[r.fst.start + 1] # ZERO_WIDTH_JOINER[1] THEN None
  ELSE join_with(s, r, next_code_point(r.snd))

\* zero_width_joiner after `next_code_point(bytes)?` returned r.
joiner_of(s, r) ==
  IF r.tag # "Some" THEN r
  ELSE IF bytes_as_str(r.fst) # ZERO_WIDTH_JOINER THEN None
  ELSE join_with(s, r, next_code_point(r.snd))

\* fn zero_width_joiner(bytes: &[u8]) -> Option<(&[u8], &[u8])>
zero_width_joiner(s) == joiner_of(s, next_code_point(s))

\* The loop `while let Some(..) = zero_width_joiner(remaining_bytes)` of next():
\* from the length so far and the remaining bytes to those the loop ends with.
RECURSIVE joiner_loop(_, _)
RECURSIVE loop_body(_, _, _)
joiner_loop(utf8_char_len, remaining_bytes) ==
  loop_body(utf8_char_len, remaining_bytes, zero_width_joiner(remaining_bytes))

\* Faulty variant: `if let` for `while let`, one joined pair at most.
loop_body_once(utf8_char_len, remaining_bytes, j) ==
  IF j.tag = "Panic" THEN [tag |-> "Panic", len |-> 0, rest |-> NoSlice]
  ELSE IF j.tag = "Some"
    THEN [tag |-> "Ok", len |-> utf8_char_len + SliceLen(j.fst), rest |-> j.snd]
    ELSE [tag |-> "Ok", len |-> utf8_char_len, rest |-> remaining_bytes]

\* Faulty variant: the code point peeked by a failed joiner attempt is skipped.
loop_body_consuming(utf8_char_len, remaining_bytes, j) ==
  IF j.tag = "Panic" THEN [tag |-> "Panic", len |-> 0, rest |-> NoSlice]
  ELSE IF j.tag = "Some" THEN joiner_loop(utf8_char_len + SliceLen(j.fst), j.snd)
  ELSE IF is_empty(remaining_bytes)
    THEN [tag |-> "Ok", len |-> utf8_char_len, rest |-> remaining_bytes]
    ELSE [tag |-> "Ok", len |-> utf8_char_len,
          rest |-> next_code_point(remaining_bytes).snd]

\* Faulty variant: the loop also takes a selector where no joiner is found.
loop_body_selector(utf8_char_len, remaining_bytes, j) ==
  IF j.tag = "Panic" THEN [tag |-> "Panic", len |-> 0, rest |-> NoSlice]
  ELSE IF j.tag = "Some" THEN joiner_loop(utf8_char_len + SliceLen(j.fst), j.snd)
  ELSE IF variation_selector(remaining_bytes).tag = "Some"
    THEN joiner_loop(utf8_char_len + Len(VARIATION_SELECTOR),
                     variation_selector(remaining_bytes).snd)
    ELSE [tag |-> "Ok", len |-> utf8_char_len, rest |-> remaining_bytes]

\* One test of the loop, j the result of zero_width_joiner(remaining_bytes).
loop_body(utf8_char_len, remaining_bytes, j) ==
  IF j.tag = "Panic" THEN [tag |-> "Panic", len |-> 0, rest |-> NoSlice]
  ELSE IF j.tag = "Some" THEN joiner_loop(utf8_char_len + SliceLen(j.fst), j.snd)
  ELSE [tag |-> "Ok", len |-> utf8_char_len, rest |-> remaining_bytes]

\* The end of next(): UTF8Char { bytes: &self.bytes[..utf8_char_len] } and
\* self.bytes = remaining_bytes, utf8_char the slice taken.
char_of(utf8_char, remaining_bytes) ==
  IF utf8_char.tag = "Panic" THEN Panic ELSE Some(utf8_char.fst, remaining_bytes)

\* next() after the joiner loop ended with lp.
after_joiners(self_bytes, lp) ==
  IF lp.tag = "Panic" THEN Panic
  ELSE char_of(slice_to(self_bytes, lp.len), lp.rest)

\* Faulty variant: the selector is skipped and its length is not counted.
after_selector_uncounted(self_bytes, cp, vs) ==
  IF vs.tag = "Panic" THEN Panic
  ELSE IF vs.tag = "Some"
    THEN after_joiners(self_bytes, joiner_loop(SliceLen(cp.fst), vs.snd))
    ELSE after_joiners(self_bytes, joiner_loop(SliceLen(cp.fst), cp.snd))

\* next() after the base code point cp, vs the result of variation_selector.
after_selector(self_bytes, cp, vs) ==
  IF vs.tag = "Panic" THEN Panic
  ELSE IF vs.tag = "Some"
    THEN after_joiners(self_bytes,
           joiner_loop(SliceLen(cp.fst) + SliceLen(vs.fst), vs.snd))
    ELSE after_joiners(self_bytes, joiner_loop(SliceLen(cp.fst), cp.snd))

\* Faulty variant: a joiner at the start of the cursor joins what follows it.
after_base_joining(self_bytes, cp) ==
  IF cp.tag # "Some" THEN cp
  ELSE IF bytes_as_str(cp.fst) = ZERO_WIDTH_JOINER
    THEN after_joiners(self_bytes, joiner_loop(0, self_bytes))
    ELSE after_selector(self_bytes, cp, variation_selector(cp.snd))

\* next() after `next_code_point(self.bytes)?` returned cp.
after_base(self_bytes, cp) ==
  IF cp.tag # "Some" THEN cp
  ELSE after_selector(self_bytes, cp, variation_selector(cp.snd))

\* Faulty variant: the empty cursor is not tested before the base code point is decoded.
next_result_unguarded(self_bytes) ==
  after_base(self_bytes, split_at_len(self_bytes, code_point_len(self_bytes)))

\* The body of UTF8Chars::next on the field self.bytes: None, a panic, or
\* Some(the slice of the UTF8Char, the new value of self.bytes).
next_result(self_bytes) ==
  IF is_empty(self_bytes) THEN None
  ELSE after_base(self_bytes, next_code_point(self_bytes))

\* ToUTF8Chars for str: utf8_chars() borrows all the bytes of the str.
utf8_chars(t) == Slice(0, Len(as_bytes(t)))

----------------------------------------------------------------------------
\* The state machine.

\* The texts of Spec: every str of at most MaxChars chars.
Strs == SeqsUpTo(CharUnits, MaxChars)

\* The buffers of SpecRaw: units that may be stray bytes, and every first
\* byte followed by a tail.
RawTexts ==
  SeqsUpTo(CharUnits \cup StrayUnits, MaxRawUnits)
    \cup {<<<<b>>, t>> : b \in 0..255, t \in Tails}

InitOn(texts, outcomes) ==
  /\ text \in texts
  /\ buf = as_bytes(text)
  /\ bytes = [i \in Segs |-> utf8_chars(text)]
  /\ emitted = [i \in Segs |-> <<>>]
  /\ ret = [i \in Segs |-> "Init"]
  /\ lenRes = Uncalled
  /\ panicked = FALSE
  /\ unchecked \in outcomes

\* The bytes of a str are UTF-8: no comparison reads the outcome.
Init == InitOn(Strs, {"bytes"})

InitRaw == InitOn(RawTexts, UncheckedOutcomes)

InitTwo == InitOn(SeqsUpTo(CharUnits, MaxTwoChars), {"bytes"})

\* Faulty variant: the cursor is one for all segmenters, not a field of each.
returns_shared(i, r) ==
  /\ ret' = [ret EXCEPT ![i] = r.tag]
  /\ panicked' = (r.tag = "Panic")
  /\ bytes' = IF r.tag = "Some" THEN [j \in Segs |-> r.snd] ELSE bytes
  /\ emitted' = IF r.tag = "Some"
                  THEN [emitted EXCEPT ![i] = Append(@, r.fst)]
                  ELSE emitted

\* Faulty variant: self.bytes = remaining_bytes is left out.
returns_unmoved(i, r) ==
  /\ ret' = [ret EXCEPT ![i] = r.tag]
  /\ panicked' = (r.tag = "Panic")
  /\ bytes' = bytes
  /\ emitted' = IF r.tag = "Some"
                  THEN [emitted EXCEPT ![i] = Append(@, r.fst)]
                  ELSE emitted

\* next() of segmenter i returns r: Some(utf8_char) after self.bytes is set,
\* None, or the panic.
returns(i, r) ==
  /\ ret' = [ret EXCEPT ![i] = r.tag]
  /\ panicked' = (r.tag = "Panic")
  /\ bytes' = IF r.tag = "Some" THEN [bytes EXCEPT ![i] = r.snd] ELSE bytes
  /\ emitted' = IF r.tag = "Some"
                  THEN [emitted EXCEPT ![i] = Append(@, r.fst)]
                  ELSE emitted

\* Segmenter i: one call of next().
next(i) ==
  /\ ~panicked
  /\ returns(i, next_result(bytes[i]))
  /\ UNCHANGED <<text, buf, lenRes, unchecked>>

\* A call of the public function code_point_len on the bytes of the text, as
\* the tests make it.
call_code_point_len ==
  /\ ~panicked
  /\ lenRes = Uncalled
  /\ lenRes' = code_point_len(Slice(0, Len(buf)))
  /\ panicked' = (lenRes'.tag = "Panic")
  /\ UNCHANGED <<text, buf, bytes, emitted, ret, unchecked>>

\* One segmenter is scanned.
Next == next(1)

\* One segmenter is scanned, and code_point_len is called.
NextRaw == next(1) \/ call_code_point_len

\* Both segmenters are scanned, their calls interleaved in any order.
NextTwo == \E i \in Segs : next(i)

\* A str, which is valid UTF-8.
Spec == Init /\ [][Next]_vars

\* Any bytes: code_point_len is public and takes &[u8], and a str built
\* without validation (from_utf8_unchecked) reaches the segmenter as it is.
SpecRaw == InitRaw /\ [][NextRaw]_vars

\* Two segmenters on a str.
SpecTwo == InitTwo /\ [][NextTwo]_vars

----------------------------------------------------------------------------
\* Properties.

\* The bytes of the UTF8Chars segmenter i has yielded, in order.
Yielded(i) == [k \in 1..Len(emitted[i]) |-> Content(emitted[i][k])]

\* The last UTF8Char segmenter i has yielded.
LastOf(i) == emitted[i][Len(emitted[i])]

\* The ranges segmenter i has yielded, then its cursor, tile the buffer from
\* its first byte to its last: each starts where the one before ends.
Tiles(i) ==
  /\ \A k \in 1..Len(emitted[i]) :
       emitted[i][k].start = (IF k = 1 THEN 0 ELSE emitted[i][k - 1].end)
  /\ bytes[i].start = (IF emitted[i] = <<>> THEN 0 ELSE LastOf(i).end)
  /\ bytes[i].end = Len(buf)

\* C1 (reconstruction): on a str, in every reachable state the bytes of the
\* extended characters yielded so far, followed by the bytes of the cursor,
\* are the buffer, the ranges following one another with no gap and no
\* overlap; once next() has returned None the yielded bytes alone are the
\* buffer.
C1_Reconstruction ==
  \A i \in Segs :
    /\ Tiles(i)
    /\ Concat(Yielded(i)) \o Content(bytes[i]) = buf
    /\ ret[i] = "None" => Concat(Yielded(i)) = buf

\* A scan that ended, of a text with a joined pair: two extended characters,
\* one of them longer than any code point.
C1_Witness ==
  /\ ret[1] = "None"
  /\ Len(emitted[1]) = 2
  /\ \E k \in 1..2 : SliceLen(emitted[1][k]) > 4

\* C2 (exhaustion stability): on a str, next() has returned None only with
\* the cursor empty, and a step taken with the cursor of a segmenter empty
\* leaves it empty, yields nothing more from it, and its next() returns None
\* and not a panic.
C2_ExhaustionStable ==
  /\ [](\A i \in Segs : ret[i] = "None" => is_empty(bytes[i]))
  /\ [][\A i \in Segs : is_empty(bytes[i]) =>
          /\ is_empty(bytes'[i])
          /\ emitted'[i] = emitted[i]
          /\ ret'[i] \in {ret[i], "None"}]_vars

\* A scan of a text of several extended characters that ended with None.
C2_Witness ==
  /\ ret[1] = "None"
  /\ is_empty(bytes[1])
  /\ Len(emitted[1]) >= 2

\* The length the table of leading bytes gives the first byte b: 1 for
\* 0xxxxxxx, 2 for 110xxxxx, 3 for 1110xxxx, 4 for 11110xxx, and 0 for a
\* byte of none of the four patterns (10xxxxxx, 11111xxx).
TableLen(b) ==
  IF b \in 0..127 THEN 1
  ELSE IF b \in 192..223 THEN 2
  ELSE IF b \in 224..239 THEN 3
  ELSE IF b \in 240..247 THEN 4
  ELSE 0

RECURSIVE WholeCodePoints(_, _)
WholeCodePoints(s, e) ==
  IF s = e THEN TRUE
  ELSE IF s > e THEN FALSE
  ELSE IF TableLen(buf[s + 1]) = 0 THEN FALSE
  ELSE WholeCodePoints(s + TableLen(buf[s + 1]), e)

\* C4 (invalid first byte): on any bytes, code_point_len called on a first
\* byte of none of the four patterns panics; next() on a cursor that starts
\* with such a byte panics; next() on a cursor that is not empty yields an
\* extended character or panics; and no extended character was ever yielded
\* over such a byte: each yielded range is whole code points by the table (its
\* base, selector, joiners and joined code points), and the byte after it,
\* peeked for a selector or a joiner, is a leading byte.
C4_InvalidFirstBytePanics ==
  /\ (lenRes.tag # "Uncalled" /\ buf # <<>> /\ TableLen(buf[1]) = 0)
       => lenRes = LenPanic
  /\ \A i \in Segs :
       /\ (~is_empty(bytes[i]) /\ TableLen(buf[bytes[i].start + 1]) = 0)
            => next_result(bytes[i]) = Panic
       /\ ~is_empty(bytes[i]) => next_result(bytes[i]).tag \in {"Some", "Panic"}
       /\ \A k \in 1..Len(emitted[i]) :
            /\ WholeCodePoints(emitted[i][k].start, emitted[i][k].end)
            /\ emitted[i][k].end < Len(buf)
                 => TableLen(buf[emitted[i][k].end + 1]) # 0

\* next() panicked on the continuation byte that follows a joiner, with the
\* base code point and the joiner before it decoded.
C4_Witness ==
  /\ ret[1] = "Panic"
  /\ emitted[1] = <<>>
  /\ is_empty(bytes[1]) = FALSE
  /\ Len(text) = 3
  /\ text[2] = ZERO_WIDTH_JOINER
  /\ text[3] = <<128>>

\* The text holds neither U+FE0F nor U+200D.
NoSelectorNoJoiner ==
  \A k \in 1..Len(text) : text[k] \notin {VARIATION_SELECTOR, ZERO_WIDTH_JOINER}

\* C5 (one extended character per code point): on a str that holds neither
\* U+FE0F nor U+200D, the extended characters yielded so far are the first
\* code points of the text, one each and in the order of the text; the
\* cursor is empty exactly when all of them are yielded, and next() then
\* returns None; no call panics.
C5_OnePerCodePoint ==
  NoSelectorNoJoiner =>
    \A i \in Segs :
      /\ Len(emitted[i]) <= Len(text)
      /\ Yielded(i) = SubSeq(text, 1, Len(emitted[i]))
      /\ is_empty(bytes[i]) <=> Len(emitted[i]) = Len(text)
      /\ ret[i] = "None" => Yielded(i) = text
      /\ ret[i] # "Panic"

\* The scan of a text of a 1, a 2, a 3 and a 4 byte code point ended: four
\* extended characters of 1, 2, 3 and 4 bytes (the test utf8_chars).
C5_Witness ==
  /\ NoSelectorNoJoiner
  /\ ret[1] = "None"
  /\ Len(emitted[1]) = 4
  /\ \A k \in 1..4 : SliceLen(emitted[1][k]) = k

\* The text is base, (U+200D, X1), ..., (U+200D, Xn) with n >= 1.
JoinerChain ==
  /\ Len(text) >= 3
  /\ Len(text) % 2 = 1
  /\ \A k \in 1..Len(text) : k % 2 = 0 => text[k] = ZERO_WIDTH_JOINER

\* Segmenter i has not been called, or has yielded the whole buffer as one
\* extended character and nothing else, its cursor then empty.
WholeOrNothing(i) ==
  \/ ret[i] = "Init" /\ emitted[i] = <<>>
  \/ /\ ret[i] \in {"Some", "None"}
     /\ emitted[i] = <<Slice(0, Len(buf))>>
     /\ is_empty(bytes[i])

\* C6 (joiner chaining): on a str of the form base, (U+200D, X1), ...,
\* (U+200D, Xn), n >= 1, the first next() yields the whole buffer as one
\* extended character and every later one returns None, for every number n
\* of pairs the text holds.
C6_JoinerChain == JoinerChain => \A i \in Segs : WholeOrNothing(i)

\* The scan of a chain of two pairs (the test of the family of three) ended.
C6_Witness ==
  /\ JoinerChain
  /\ Len(text) = 5
  /\ ret[1] = "None"
  /\ Len(emitted[1]) = 1

\* The text is base, U+FE0F, (U+200D, X1), ..., (U+200D, Xn) with n >= 0.
SelectorThenJoiners ==
  /\ Len(text) >= 2
  /\ Len(text) % 2 = 0
  /\ text[2] = VARIATION_SELECTOR
  /\ \A k \in 3..Len(text) : k % 2 = 1 => text[k] = ZERO_WIDTH_JOINER

\* C7 (selector then joiners): on a str of the form base, U+FE0F,
\* (U+200D, X1), ..., (U+200D, Xn), n >= 0, the first next() yields the
\* whole buffer as one extended character and every later one returns None.
C7_SelectorThenJoiners == SelectorThenJoiners => \A i \in Segs : WholeOrNothing(i)

\* The scan of base, U+FE0F, U+200D, X (the test of the rainbow flag) ended.
C7_Witness ==
  /\ SelectorThenJoiners
  /\ Len(text) = 4
  /\ ret[1] = "None"
  /\ Len(emitted[1]) = 1

\* The text ends with a U+200D that no code point follows.
EndsWithJoiner ==
  /\ Len(text) >= 1
  /\ text[Len(text)] = ZERO_WIDTH_JOINER

\* C8 as claimed (dangling joiner, emitted alone): on a str that ends with
\* U+200D no call panics, and the last extended character of the ended scan
\* is the joiner alone.
C8_JoinerAloneAsClaimed ==
  EndsWithJoiner =>
    \A i \in Segs :
      /\ ret[i] # "Panic"
      /\ ret[i] = "None" =>
           /\ emitted[i] # <<>>
           /\ Content(LastOf(i)) = ZERO_WIDTH_JOINER

\* C8 as amended (dangling joiner, tolerated): on a str that ends with U+200D
\* no call panics, and the last extended character of the ended scan ends
\* with the joiner at the end of the buffer: it is the joiner alone when the
\* joiner is the whole text, and otherwise it starts before the joiner, which
\* is appended to the extended character that precedes it.
C8_DanglingJoinerAbsorbed ==
  EndsWithJoiner =>
    \A i \in Segs :
      /\ ret[i] # "Panic"
      /\ ret[i] = "None" =>
           /\ emitted[i] # <<>>
           /\ LastOf(i).end = Len(buf)
           /\ SubSeq(buf, Len(buf) - 2, Len(buf)) = ZERO_WIDTH_JOINER
           /\ Len(text) = 1 => Content(LastOf(i)) = ZERO_WIDTH_JOINER
           /\ Len(text) >= 2 => LastOf(i).start < Len(buf) - Len(ZERO_WIDTH_JOINER)

\* The scan of a code point and a dangling joiner ended with one extended
\* character, the two together.
C8_Witness ==
  /\ EndsWithJoiner
  /\ Len(text) = 2
  /\ text[1] # ZERO_WIDTH_JOINER
  /\ ret[1] = "None"
  /\ Len(emitted[1]) = 1
  /\ LastOf(1) = Slice(0, Len(buf))

\* The shorter of the two sequences is the start of the longer.
Agree(a, b) ==
  IF Len(a) <= Len(b) THEN a = SubSeq(b, 1, Len(a)) ELSE b = SubSeq(a, 1, Len(b))

Shortens(c, r) ==
  /\ r.tag = "Some"
  /\ r.snd.end = c.end
  /\ TableLen(buf[c.start + 1]) >= 1
  /\ r.snd.start >= c.start + TableLen(buf[c.start + 1])
  /\ r.snd.start <= r.snd.end

\* C10 (progress, termination): on a str of N code points the cursor is
\* always a suffix of the buffer and at most N extended characters are
\* yielded; next() on a cursor that is not empty yields one and shortens the
\* cursor by at least its first code point, and no step lengthens a cursor:
\* the length of the cursor bounds the calls left before it is empty.
C10_Progress ==
  /\ [](\A i \in Segs :
          /\ 0 <= bytes[i].start /\ bytes[i].start <= bytes[i].end
          /\ bytes[i].end = Len(buf)
          /\ Len(emitted[i]) <= Len(text)
          /\ ~is_empty(bytes[i]) => Shortens(bytes[i], next_result(bytes[i])))
  /\ [][\A i \in Segs :
          /\ bytes'[i].start >= bytes[i].start
          /\ bytes'[i].end = bytes[i].end
          /\ (~is_empty(bytes[i]) /\ <<emitted[i], ret[i]>>' # <<emitted[i], ret[i]>>)
               => /\ ret'[i] = "Some"
                  /\ Len(emitted'[i]) = Len(emitted[i]) + 1
                  /\ bytes'[i].start > bytes[i].start]_vars

\* The scan of a text of five code points ended after three extended
\* characters.
C10_Witness ==
  /\ Len(text) = 5
  /\ ret[1] = "None"
  /\ is_empty(bytes[1])
  /\ Len(emitted[1]) = 3

\* The bytes of the first code point of the slice c, not empty, by the table.
FirstCodePoint(c) ==
  SubSeq(buf, c.start + 1, c.start + TableLen(buf[c.start + 1]))

\* The extended character e is its base code point and nothing more.
BaseOnly(e) == SliceLen(e) = TableLen(buf[e.start + 1])

\* C11 (no consumption on a non-match): on a str, after a step that left the
\* cursor not empty, the cursor starts where the yielded character ends, at
\* the code point the joiner attempt peeked: it is not U+200D and
\* zero_width_joiner on the cursor is None; when the character is its base
\* alone the selector attempt peeked it too: it is not U+FE0F and
\* variation_selector on the cursor is None.  The next step takes that code
\* point as its base: the character it yields starts at the cursor's start
\* and holds the cursor's first code point.
C11_NoConsumptionOnNonMatch ==
  /\ [](\A i \in Segs :
          (emitted[i] # <<>> /\ ~is_empty(bytes[i])) =>
            /\ bytes[i].start = LastOf(i).end
            /\ FirstCodePoint(bytes[i]) # ZERO_WIDTH_JOINER
            /\ zero_width_joiner(bytes[i]) = None
            /\ BaseOnly(LastOf(i)) =>
                 /\ FirstCodePoint(bytes[i]) # VARIATION_SELECTOR
                 /\ variation_selector(bytes[i]) = None)
  /\ [][\A i \in Segs :
          (~is_empty(bytes[i]) /\ emitted'[i] # emitted[i]) =>
            /\ emitted'[i][Len(emitted'[i])].start = bytes[i].start
            /\ SliceLen(emitted'[i][Len(emitted'[i])])
                 >= Len(FirstCodePoint(bytes[i]))
            /\ bytes'[i].start = emitted'[i][Len(emitted'[i])].end]_vars

\* A base-only character was yielded (both attempts non-matches), and the
\* code point they peeked is the base of the second character.
C11_Witness ==
  /\ Len(emitted[1]) = 2
  /\ BaseOnly(emitted[1][1])
  /\ emitted[1][2].start = emitted[1][1].end
  /\ SliceLen(emitted[1][2]) > 4

\* The offset in the buffer at which unit k of the text starts (for
\* k = Len(text) + 1, the length of the buffer).
OffsetOf(k) == Len(as_bytes(SubSeq(text, 1, k - 1)))

\* The suffix of the buffer from unit k of the text on.
SuffixFrom(k) == Slice(OffsetOf(k), Len(buf))

\* C12 (dangling joiner, recognizer): on a str, zero_width_joiner on the
\* suffix that is one U+200D and nothing after it returns Some of the
\* joiner's bytes and the empty remainder; on a suffix where a code point
\* follows the U+200D it returns Some of the one span of the joiner and that
\* code point, and the remainder after them.
C12_JoinerRecognizer ==
  \A k \in 1..Len(text) :
    text[k] = ZERO_WIDTH_JOINER =>
      zero_width_joiner(SuffixFrom(k)) =
        IF k = Len(text)
          THEN Some(Slice(OffsetOf(k), Len(buf)), Slice(Len(buf), Len(buf)))
          ELSE Some(Slice(OffsetOf(k), OffsetOf(k + 2)), SuffixFrom(k + 2))

\* next() called zero_width_joiner on the dangling joiner of a text of a
\* code point, a joined pair and the joiner, and yielded them all.
C12_Witness ==
  /\ Len(text) = 4
  /\ text[2] = ZERO_WIDTH_JOINER
  /\ text[4] = ZERO_WIDTH_JOINER
  /\ text[1] # ZERO_WIDTH_JOINER
  /\ zero_width_joiner(SuffixFrom(4)).tag = "Some"
  /\ ret[1] = "Some"
  /\ emitted[1] = <<Slice(0, Len(buf))>>

\* Unit k of the text lies in the range e.
UnitIn(k, e) == e.start <= OffsetOf(k) /\ OffsetOf(k) < e.end

\* The text starts base, U+200D, X, U+FE0F.
SelectorAfterJoined ==
  /\ Len(text) >= 4
  /\ text[2] = ZERO_WIDTH_JOINER
  /\ text[4] = VARIATION_SELECTOR

\* The text starts base, U+FE0F, U+FE0F.
SelectorTwice ==
  /\ Len(text) >= 3
  /\ text[2] = VARIATION_SELECTOR
  /\ text[3] = VARIATION_SELECTOR

\* C13 (selector tried once, after the base): on a str, a U+FE0F inside a
\* yielded extended character is its base, or the code point right after its
\* base, or follows a U+200D (as the joined code point).  For a text that
\* starts base, U+200D, X, U+FE0F the first character ends before the
\* U+FE0F, and for one that starts base, U+FE0F, U+FE0F it ends before the
\* second U+FE0F; that U+FE0F is where the second character starts.
C13_SelectorOnce ==
  \A i \in Segs :
    /\ \A n \in 1..Len(emitted[i]) : \A k \in 2..Len(text) :
         (UnitIn(k, emitted[i][n]) /\ text[k] = VARIATION_SELECTOR) =>
           \/ OffsetOf(k) = emitted[i][n].start
           \/ OffsetOf(k - 1) = emitted[i][n].start
           \/ text[k - 1] = ZERO_WIDTH_JOINER
    /\ (SelectorAfterJoined /\ Len(emitted[i]) >= 1) =>
         emitted[i][1] = Slice(0, OffsetOf(4))
    /\ (SelectorAfterJoined /\ Len(emitted[i]) >= 2) =>
         emitted[i][2].start = OffsetOf(4)
    /\ (SelectorTwice /\ Len(emitted[i]) >= 1) =>
         emitted[i][1] = Slice(0, OffsetOf(3))
    /\ (SelectorTwice /\ Len(emitted[i]) >= 2) =>
         emitted[i][2].start = OffsetOf(3)

\* The scan of base, U+200D, X, U+FE0F ended: the joined three, then the
\* selector as a character of its own.
C13_Witness ==
  /\ SelectorAfterJoined
  /\ Len(text) = 4
  /\ ret[1] = "None"
  /\ Len(emitted[1]) = 2
  /\ Content(emitted[1][2]) = VARIATION_SELECTOR

\* The text starts base, U+200D, U+200D, Y with Y neither joiner nor selector.
JoinedJoiner ==
  /\ Len(text) >= 4
  /\ text[2] = ZERO_WIDTH_JOINER
  /\ text[3] = ZERO_WIDTH_JOINER
  /\ text[4] \notin {ZERO_WIDTH_JOINER, VARIATION_SELECTOR}

\* C14 (the joined code point, whatever it is): on a str that starts base,
\* U+200D, X the first extended character holds X with the joiner, whatever X
\* is; when X is U+200D and Y, neither joiner nor selector, follows, the
\* first character is base, U+200D, U+200D and no more, the second starts
\* with Y, and for the text base, U+200D, U+200D, Y the ended scan has
\* yielded these two.
C14_JoinedUnconditionally ==
  \A i \in Segs :
    /\ (Len(text) >= 3 /\ text[2] = ZERO_WIDTH_JOINER /\ Len(emitted[i]) >= 1) =>
         /\ emitted[i][1].start = 0
         /\ emitted[i][1].end >= OffsetOf(4)
    /\ (JoinedJoiner /\ Len(emitted[i]) >= 1) =>
         emitted[i][1] = Slice(0, OffsetOf(4))
    /\ (JoinedJoiner /\ Len(emitted[i]) >= 2) =>
         /\ emitted[i][2].start = OffsetOf(4)
         /\ emitted[i][2].end >= OffsetOf(5)
    /\ (JoinedJoiner /\ Len(text) = 4 /\ ret[i] = "None") =>
         Yielded(i) = <<text[1] \o text[2] \o text[3], text[4]>>

\* The scan of base, U+200D, U+200D, Y ended with two extended characters.
C14_Witness ==
  /\ JoinedJoiner
  /\ Len(text) = 4
  /\ ret[1] = "None"
  /\ Len(emitted[1]) = 2

\* The text starts with U+200D or U+FE0F, then Y, neither joiner nor selector.
MarkThenOther ==
  /\ Len(text) >= 2
  /\ text[1] \in {ZERO_WIDTH_JOINER, VARIATION_SELECTOR}
  /\ text[2] \notin {ZERO_WIDTH_JOINER, VARIATION_SELECTOR}

\* C15 (the base, whatever it is): the first code point at the cursor is the
\* base of the extended character even when it is U+200D or U+FE0F: every
\* yielded character starts with a whole code point of the text, and on a
\* str that starts U+200D, Y or U+FE0F, Y (Y neither joiner nor selector)
\* the first character is the mark alone and the second starts with Y; the
\* ended scan of the text U+200D, Y has yielded U+200D and Y.
C15_BaseUnconditionally ==
  \A i \in Segs :
    /\ \A n \in 1..Len(emitted[i]) :
         /\ \E k \in 1..Len(text) : emitted[i][n].start = OffsetOf(k)
         /\ SliceLen(emitted[i][n]) >= TableLen(buf[emitted[i][n].start + 1])
    /\ (MarkThenOther /\ Len(emitted[i]) >= 1) =>
         /\ emitted[i][1] = Slice(0, OffsetOf(2))
         /\ Content(emitted[i][1]) = text[1]
    /\ (MarkThenOther /\ Len(emitted[i]) >= 2) =>
         /\ emitted[i][2].start = OffsetOf(2)
         /\ emitted[i][2].end >= OffsetOf(3)
    /\ (MarkThenOther /\ Len(text) = 2 /\ ret[i] = "None") =>
         Yielded(i) = <<text[1], text[2]>>

\* The scan of U+200D, Y ended with two extended characters.
C15_Witness ==
  /\ MarkThenOther
  /\ text[1] = ZERO_WIDTH_JOINER
  /\ Len(text) = 2
  /\ ret[1] = "None"
  /\ Len(emitted[1]) = 2

\* The offset o is a code-point boundary of the text (its end included).
Boundary(o) == \E k \in 1..(Len(text) + 1) : o = OffsetOf(k)

\* C16 (alignment): on a str the cursor always starts on a code-point
\* boundary and ends at the end of the buffer; every yielded character is
\* non-empty and starts and ends on a code-point boundary; and the step that
\* yields it yields the bytes from the cursor's start, as many as the step
\* shortens the cursor by.
C16_Alignment ==
  /\ [](\A i \in Segs :
          /\ Boundary(bytes[i].start)
          /\ bytes[i].end = Len(buf)
          /\ \A n \in 1..Len(emitted[i]) :
               /\ SliceLen(emitted[i][n]) > 0
               /\ Boundary(emitted[i][n].start)
               /\ Boundary(emitted[i][n].end))
  /\ [][\A i \in Segs :
          emitted'[i] # emitted[i] =>
            /\ Len(emitted'[i]) = Len(emitted[i]) + 1
            /\ emitted'[i][Len(emitted'[i])].start = bytes[i].start
            /\ SliceLen(emitted'[i][Len(emitted'[i])]) = SliceLen(bytes[i]) - SliceLen(bytes'[i])
            /\ bytes'[i].end = bytes[i].end]_vars

\* Three characters were yielded, the second of them of more than one code
\* point, and the cursor stands inside the buffer.
C16_Witness ==
  /\ Len(emitted[1]) = 3
  /\ ~BaseOnly(emitted[1][2])
  /\ ~is_empty(bytes[1])
  /\ bytes[1].start = emitted[1][3].end

\* C17 (no panic on a str): on a buffer of whole, well-formed code points no
\* call of next() has panicked, each call that returned Some built its
\* character within the buffer, and at every cursor the calls reach
\* code_point_len finds the length of the first byte and next_code_point
\* splits within range.
C17_NoPanicOnStr ==
  /\ ~panicked
  /\ \A i \in Segs :
       /\ ret[i] # "Panic"
       /\ ret[i] = "Some" => emitted[i] # <<>> /\ LastOf(i).end <= Len(buf)
       /\ ~is_empty(bytes[i]) =>
            /\ code_point_len(bytes[i]) = Ok(TableLen(buf[bytes[i].start + 1]))
            /\ next_code_point(bytes[i]).tag = "Some"
            /\ next_code_point(bytes[i]).snd.end = Len(buf)

\* A str of a four-byte char, a selector and a joiner was scanned to its end.
C17_Witness ==
  /\ ret[1] = "None"
  /\ Len(text) = 5
  /\ \E k \in 1..Len(text) : Len(text[k]) = 4
  /\ \E k \in 2..Len(text) : text[k] = VARIATION_SELECTOR
  /\ \E k \in 2..Len(text) : text[k] = ZERO_WIDTH_JOINER
  /\ Len(emitted[1]) >= 2

\* The step of segmenter i yields one extended character: the bytes from the
\* cursor's start that the cursor loses, within the buffer, and whole code
\* points by their decoded lengths.
Emits(i) ==
  /\ ret'[i] = "Some"
  /\ ~panicked'
  /\ emitted'[i] = Append(emitted[i], Slice(bytes[i].start, bytes'[i].start))
  /\ bytes[i].start < bytes'[i].start
  /\ bytes'[i].start <= Len(buf)
  /\ bytes'[i].end = bytes[i].end
  /\ WholeCodePoints(bytes[i].start, bytes'[i].start)

\* The step of segmenter i panics: nothing is yielded and the cursor is as it was.
Fatal(i) ==
  /\ ret'[i] = "Panic"
  /\ panicked'
  /\ ~is_empty(bytes[i])
  /\ bytes'[i] = bytes[i]
  /\ emitted'[i] = emitted[i]

\* The step of segmenter i finds the cursor empty and returns None.
Ends(i) ==
  /\ ret'[i] = "None"
  /\ ~panicked'
  /\ is_empty(bytes[i])
  /\ bytes'[i] = bytes[i]
  /\ emitted'[i] = emitted[i]

\* C18 (all or nothing on any bytes): on any buffer, stray and truncated
\* bytes included, and whatever a comparison makes of a str that is not
\* UTF-8, every call of next() on a cursor that is not empty either yields
\* one extended character, within the buffer and of whole decoded code
\* points, and moves the cursor past exactly it, or panics with nothing
\* yielded and the cursor as it was; on the empty cursor it returns None.
\* The characters yielded so far lie end to end from the start of the buffer
\* to the cursor.
C18_AllOrNothing ==
  /\ [](\A i \in Segs :
          /\ bytes[i].end = Len(buf)
          /\ bytes[i].start = IF emitted[i] = <<>> THEN 0 ELSE LastOf(i).end
          /\ \A n \in 1..Len(emitted[i]) :
               /\ emitted[i][n].start = IF n = 1 THEN 0 ELSE emitted[i][n - 1].end
               /\ emitted[i][n].start < emitted[i][n].end
               /\ emitted[i][n].end <= Len(buf)
               /\ WholeCodePoints(emitted[i][n].start, emitted[i][n].end))
  /\ [][\A i \in Segs :
          (ret'[i] # ret[i] \/ emitted'[i] # emitted[i] \/ bytes'[i] # bytes[i]) =>
            (Emits(i) \/ Fatal(i) \/ Ends(i))]_vars

\* One character was yielded and the next call panicked on the leading byte
\* of a three-byte code point that ends the buffer, the cursor still before
\* the second character.
C18_Witness ==
  /\ Len(text) = 3
  /\ text[3] = <<226>>
  /\ ret[1] = "Panic"
  /\ Len(emitted[1]) = 1
  /\ bytes[1].start = emitted[1][1].end
  /\ bytes[1].start < Len(buf)

====
